---- MODULE Spec2Model ----
(***************************************************************************)
(* Signaling broker of jocarsa-darkorchid (Teacher/Student WebRTC).        *)
(*                                                                         *)
(* The broker is a single-threaded Node.js process: every 'connection',    *)
(* 'message' and 'close' callback runs to completion, so each callback is  *)
(* one atomic action here.  The repository holds three copies of the       *)
(* broker: src/unnamed/part_001 (server_ssl.js) and src/unnamed/part_000   *)
(* (the same code over http) broadcast the attendants list; src/server.js  *)
(* is the same code without broadcastAttendantsList.  Spec models the      *)
(* first two, SpecServerJs the third.                                      *)
(*                                                                         *)
(* The transport (the ws library) is outside src/: a socket is OPEN from   *)
(* its 'connection' event, may turn CLOSING when the peer goes away, and   *)
(* is CLOSED when its 'close' event runs; 'message' events are delivered   *)
(* only for OPEN sockets.                                                  *)
(*                                                                         *)
(* SpecPages and SpecHandshake put the pages of src/public/script.js       *)
(* around the broker: one page per socket, the messages in flight in both  *)
(* directions, and the promise continuations of each page.  The browser's  *)
(* RTCPeerConnection is outside src/: createOffer, createAnswer and the    *)
(* set...Description calls complete in a later task, in call order on one  *)
(* connection; they fail on a closed connection, createAnswer and          *)
(* setLocalDescription(answer) fail without a remote offer, and            *)
(* setRemoteDescription(answer) fails without a local offer; candidates    *)
(* are gathered once a local description is set.                           *)
(***************************************************************************)
EXTENDS Integers, Sequences, FiniteSets

\* ------------------------------------------------------------ bounds
NumConns == 2
MaxId == 2
MaxStudents == 2

Conns == 1..NumConns
Ids == 1..MaxId
Names == {"A", "B"}
Payloads == {"X", "Y"}
Roles == {"teacher", "student", "guest"}

\* the display name the user behind socket c types in (script.js sends it in
\* every join); sockets of different users carry different names
NameOf(c) == IF c % 2 = 1 THEN "A" ELSE "B"

\* `null` of clientId (part_001:101) and of msg fields that are absent
Null == 0

\* `teacherClient = null` (part_001:48)
NoClient == [ws |-> Null, id |-> Null, name |-> "", role |-> "none"]

NoMsg == [type |-> "none"]

\* what a 'close' callback starts from: no message, the clientId of its closure
Closure(id) == [type |-> "none", clientId |-> id]

\* how often the login button is pressed on all pages together, and how
\* many candidates one peer connection gathers
MaxClicks == 3
MaxCand == 1

\* how many messages of the pages are on their way to the broker at a time
MaxInFlight == 1

\* ------------------------------------------------------------ state
VARIABLES
  readyState,     \* ws.readyState of every socket
  clientId,       \* the closure variable clientId of every connection
  teacherClient,  \* the presenter slot
  students,       \* the viewer array
  sent,           \* the ws.send calls of the last callback, in order
  ev,             \* the last callback: its kind, its socket, its message
  lastLeft,       \* history: the id of the viewer the last close removed
  inbox,          \* per socket: the messages a page sent, not yet processed
  outbox,         \* per socket: the messages sent to a page, not yet handled
  page,           \* per socket: the globals of the page (script.js:10-17)
  pcs,            \* per socket: the RTCPeerConnection objects the page made
  tasks,          \* per socket: the pending promise continuations
  cev             \* the last page event: its kind, page, message, connection

cvars == <<inbox, outbox, page, pcs, tasks, cev>>

vars == <<readyState, clientId, teacherClient, students, sent, ev, lastLeft,
          inbox, outbox, page, pcs, tasks, cev>>

\* wss.clients.forEach visits the sockets in insertion order: they are
\* numbered in the order they connect
ConnSeq == [i \in 1..NumConns |-> i]

\* ------------------------------------------------------------ helpers
Send(c, m) == [to |-> c, msg |-> m]

\* mutant: the reply is built before clientId is assigned
JoinedMsg_BeforeAssign(role, id) == [type |-> "joined", role |-> role, id |-> Null]

\* { type: 'joined', role, id: clientId }
JoinedMsg(role, id) == [type |-> "joined", role |-> role, id |-> id]

\* mutant: the notice carries the presenter's name, not the joiner's
StudentJoinedMsg_TeacherName(id, name) ==
  [type |-> "student-joined", studentId |-> id, name |-> teacherClient.name]

\* { type: 'student-joined', studentId: clientId, name }
StudentJoinedMsg(id, name) ==
  [type |-> "student-joined", studentId |-> id, name |-> name]

\* mutant: the notice names no viewer
StudentLeftMsg_NoId(id) == [type |-> "student-left", studentId |-> Null]

\* { type: 'student-left', studentId: clientId }
StudentLeftMsg(id) == [type |-> "student-left", studentId |-> id]

\* { type: 'attendants-list', list: all }
AttendantsListMsg(all) == [type |-> "attendants-list", list |-> all]

\* { type: 'offer', sdp: msg.sdp, studentId: msg.studentId }
OfferMsg(studentId, sdp) ==
  [type |-> "offer", sdp |-> sdp, studentId |-> studentId]

\* { type: 'answer', studentId: msg.studentId, sdp: msg.sdp }
AnswerMsg(studentId, sdp) ==
  [type |-> "answer", studentId |-> studentId, sdp |-> sdp]

\* { type: 'ice-candidate', target, studentId: msg.studentId, candidate }
IceMsg(target, studentId, candidate) ==
  [type |-> "ice-candidate", target |-> target, studentId |-> studentId,
   candidate |-> candidate]

\* the registry, as the callbacks read and write it
Registry == <<teacherClient, students>>

\* what ev records of a callback: its kind, its socket, the message it was
\* given and the registry it started from
Event(kind, c, m) == [kind |-> kind, ws |-> c, msg |-> m, before |-> Registry]

\* the tokens held by the registry or by a live connection's closure
UsedIds ==
  ({clientId[c] : c \in Conns} \cup {students[i].id : i \in 1..Len(students)}
     \cup {teacherClient.id}) \ {Null}

\* generateId(): Math.random().toString(36).substr(2, 9) draws a token at
\* random; nothing makes it differ from the tokens drawn before.  A token
\* that occurs nowhere in the state is interchangeable with every other such
\* token, so the least of them stands for all.
generateId ==
  UsedIds \cup {i \in Ids : i \notin UsedIds /\ \A j \in 1..(i - 1) : j \in UsedIds}

\* mutant: every entry is pushed with role 'teacher'
RosterList_AllTeachers(t, s) ==
  (IF t # NoClient THEN <<[id |-> t.id, name |-> t.name, role |-> "teacher"]>>
                   ELSE <<>>)
  \o [i \in 1..Len(s) |-> [id |-> s[i].id, name |-> s[i].name, role |-> "teacher"]]

\* mutant: the students are pushed before the teacher
RosterList_StudentsFirst(t, s) ==
  [i \in 1..Len(s) |-> [id |-> s[i].id, name |-> s[i].name, role |-> "student"]]
  \o (IF t # NoClient THEN <<[id |-> t.id, name |-> t.name, role |-> "teacher"]>>
                      ELSE <<>>)

\* all = [teacher?] ++ students, as {id, name, role}
RosterList(t, s) ==
  (IF t # NoClient THEN <<[id |-> t.id, name |-> t.name, role |-> "teacher"]>>
                   ELSE <<>>)
  \o [i \in 1..Len(s) |-> [id |-> s[i].id, name |-> s[i].name, role |-> "student"]]

\* mutant: each client is sent the list of the others, without its own entry
broadcastAttendantsList_Others(rs, t, s) ==
  LET open == SelectSeq(ConnSeq, LAMBDA c : rs[c] = "OPEN")
  IN  [i \in 1..Len(open) |->
         Send(open[i],
              AttendantsListMsg(RosterList(IF t.ws = open[i] THEN NoClient ELSE t,
                                           SelectSeq(s, LAMBDA x : x.ws # open[i]))))]

\* broadcastAttendantsList(): one attendants-list to every OPEN client
broadcastAttendantsList(rs, t, s) ==
  LET open == SelectSeq(ConnSeq, LAMBDA c : rs[c] = "OPEN")
  IN  [i \in 1..Len(open) |->
         Send(open[i], AttendantsListMsg(RosterList(t, s)))]

\* src/server.js has no broadcastAttendantsList
Roster(withRoster, rs, t, s) ==
  IF withRoster THEN broadcastAttendantsList(rs, t, s) ELSE <<>>

\* students.find(s => s.id === studentId): index of the first match, 0 if none
FindStudent(s, studentId) ==
  IF \E i \in 1..Len(s) : s[i].id = studentId
  THEN CHOOSE i \in 1..Len(s) :
         /\ s[i].id = studentId
         /\ \A j \in 1..(i - 1) : s[j].id # studentId
  ELSE 0

\* mutant: when nothing matches, the last entry goes
filterStudents_Pop(s, id) ==
  IF \E i \in 1..Len(s) : s[i].id = id
  THEN SelectSeq(s, LAMBDA x : x.id # id)
  ELSE SubSeq(s, 1, Len(s) - 1)

\* students.filter(s => s.id !== clientId)
filterStudents(s, id) == SelectSeq(s, LAMBDA x : x.id # id)

\* mutant: the readyState test is dropped
forwardToStudent_NoReadyStateCheck(studentId, msgObj) ==
  LET i == FindStudent(students, studentId)
  IN  IF i # 0 THEN <<Send(students[i].ws, msgObj)>> ELSE <<>>

\* forwardToStudent(studentId, msgObj)
forwardToStudent(studentId, msgObj) ==
  LET i == FindStudent(students, studentId)
  IN  IF i # 0 /\ readyState[students[i].ws] = "OPEN"
      THEN <<Send(students[i].ws, msgObj)>>
      ELSE <<>>

\* mutant: the message goes to every open socket, as the roster does
forwardToTeacher_ToAllOpen(rs, t, msgObj) ==
  IF t # NoClient /\ rs[t.ws] = "OPEN"
  THEN LET open == SelectSeq(ConnSeq, LAMBDA c : rs[c] = "OPEN")
       IN  [i \in 1..Len(open) |-> Send(open[i], msgObj)]
  ELSE <<>>

\* if (teacherClient && teacherClient.ws.readyState === WebSocket.OPEN) send
forwardToTeacher(rs, t, msgObj) ==
  IF t # NoClient /\ rs[t.ws] = "OPEN" THEN <<Send(t.ws, msgObj)>> ELSE <<>>

\* ------------------------------------------------------------ pages: state
\* the radio buttons of the login overlay
RadioRoles == {"teacher", "student"}

\* an RTCPeerConnection: the viewer it is for (the presenter's side), whether
\* its local and remote descriptions are set, whether close() was called,
\* the offers or answers sent for it and the candidates it gathered
NoPc == [studentId |-> Null, local |-> FALSE, remote |-> FALSE,
         closed |-> FALSE, sentSdp |-> 0, cands |-> 0]

\* new RTCPeerConnection(config)
NewPc(studentId) == [NoPc EXCEPT !.studentId = studentId]

\* the globals of a page as it loads; pcTeacher and the values of pcStudents
\* index pcs, 0 for null or no entry
NoPage == [clicks |-> 0, gone |-> FALSE, userRole |-> "null", userId |-> Null,
           pcTeacher |-> 0, pcStudents |-> [i \in Ids |-> 0],
           dataChannels |-> {}, offersSeen |-> 0, answersSent |-> 0]

NoPageEvent == [kind |-> "none", ws |-> Null, msg |-> NoMsg, idx |-> 0,
                pc |-> NoPc]

\* what cev records of a page event: its kind, its page, the message handled
\* or sent, and the peer connection it is about (index and state before)
PageEvent(kind, c, m, i) ==
  [kind |-> kind, ws |-> c, msg |-> m, idx |-> i,
   pc |-> IF i = 0 THEN NoPc ELSE pcs[c][i]]

PagesInit ==
  /\ inbox = [c \in Conns |-> <<>>]
  /\ outbox = [c \in Conns |-> <<>>]
  /\ page = [c \in Conns |-> NoPage]
  /\ pcs = [c \in Conns |-> <<>>]
  /\ tasks = [c \in Conns |-> <<>>]
  /\ cev = NoPageEvent

\* ------------------------------------------------------------ actions
Init ==
  /\ PagesInit
  /\ readyState = [c \in Conns |-> "IDLE"]
  /\ clientId = [c \in Conns |-> Null]
  /\ teacherClient = NoClient
  /\ students = <<>>
  /\ sent = <<>>
  /\ ev = Event("init", Null, NoMsg)
  /\ lastLeft = Null

\* wss.on('connection'): a new socket, with clientId = null
Connect(c) ==
  /\ readyState[c] = "IDLE"
  /\ \A d \in Conns : d < c => readyState[d] # "IDLE"
  /\ readyState' = [readyState EXCEPT ![c] = "OPEN"]
  /\ clientId' = [clientId EXCEPT ![c] = Null]
  /\ sent' = <<>>
  /\ ev' = Event("connection", c, NoMsg)
  /\ UNCHANGED <<teacherClient, students, lastLeft>>

\* the peer goes away: the socket leaves OPEN before its 'close' event runs
TransportDrop(c) ==
  /\ readyState[c] = "OPEN"
  /\ readyState' = [readyState EXCEPT ![c] = "CLOSING"]
  /\ sent' = <<>>
  /\ ev' = Event("drop", c, NoMsg)
  /\ UNCHANGED <<clientId, teacherClient, students, lastLeft>>

\* mutant: a joining viewer is handed an offer that was kept for its id
JoinOn_FlushOffer(withRoster, c, role, name) ==
  /\ name = NameOf(c)
  /\ readyState[c] = "OPEN"
  /\ role # "teacher" => Len(students) < MaxStudents
  /\ \E id \in generateId :
       LET t == IF role = "teacher"
                THEN [ws |-> c, id |-> id, name |-> name, role |-> "teacher"]
                ELSE teacherClient
           s == IF role = "teacher"
                THEN students
                ELSE Append(students,
                            [ws |-> c, id |-> id, name |-> name, role |-> "student"])
           joined == <<Send(c, JoinedMsg(role, id))>>
           notify == IF role = "teacher"
                     THEN <<>>
                     ELSE <<Send(c, OfferMsg(id, "X"))>>
                          \o forwardToTeacher(readyState, teacherClient,
                                              StudentJoinedMsg(id, name))
       IN  /\ clientId' = [clientId EXCEPT ![c] = id]
           /\ teacherClient' = t
           /\ students' = s
           /\ sent' = joined \o notify \o Roster(withRoster, readyState, t, s)
  /\ ev' = Event("join", c, [type |-> "join", role |-> role, name |-> name])
  /\ UNCHANGED <<readyState, lastLeft>>

\* mutant: the displaced presenter is told and its socket is closed
JoinOn_KickDisplaced(withRoster, c, role, name) ==
  /\ name = NameOf(c)
  /\ readyState[c] = "OPEN"
  /\ role # "teacher" => Len(students) < MaxStudents
  /\ \E id \in generateId :
       LET t == IF role = "teacher"
                THEN [ws |-> c, id |-> id, name |-> name, role |-> "teacher"]
                ELSE teacherClient
           s == IF role = "teacher"
                THEN students
                ELSE Append(students,
                            [ws |-> c, id |-> id, name |-> name, role |-> "student"])
           kicked == role = "teacher" /\ teacherClient # NoClient
                       /\ teacherClient.ws # c /\ readyState[teacherClient.ws] = "OPEN"
           rs == IF kicked
                 THEN [readyState EXCEPT ![teacherClient.ws] = "CLOSING"]
                 ELSE readyState
           joined == <<Send(c, JoinedMsg(role, id))>>
           notify == IF role = "teacher"
                     THEN IF kicked
                          THEN <<Send(teacherClient.ws, [type |-> "displaced"])>>
                          ELSE <<>>
                     ELSE forwardToTeacher(readyState, teacherClient,
                                           StudentJoinedMsg(id, name))
       IN  /\ clientId' = [clientId EXCEPT ![c] = id]
           /\ teacherClient' = t
           /\ students' = s
           /\ readyState' = rs
           /\ sent' = joined \o notify \o Roster(withRoster, rs, t, s)
  /\ ev' = Event("join", c, [type |-> "join", role |-> role, name |-> name])
  /\ UNCHANGED lastLeft

\* mutant: the roster is broadcast first, the replies after it
JoinOn_RosterFirst(withRoster, c, role, name) ==
  /\ name = NameOf(c)
  /\ readyState[c] = "OPEN"
  /\ role # "teacher" => Len(students) < MaxStudents
  /\ \E id \in generateId :
       LET t == IF role = "teacher"
                THEN [ws |-> c, id |-> id, name |-> name, role |-> "teacher"]
                ELSE teacherClient
           s == IF role = "teacher"
                THEN students
                ELSE Append(students,
                            [ws |-> c, id |-> id, name |-> name, role |-> "student"])
           joined == <<Send(c, JoinedMsg(role, id))>>
           notify == IF role = "teacher"
                     THEN <<>>
                     ELSE forwardToTeacher(readyState, teacherClient,
                                           StudentJoinedMsg(id, name))
       IN  /\ clientId' = [clientId EXCEPT ![c] = id]
           /\ teacherClient' = t
           /\ students' = s
           /\ sent' = Roster(withRoster, readyState, t, s) \o joined \o notify
  /\ ev' = Event("join", c, [type |-> "join", role |-> role, name |-> name])
  /\ UNCHANGED <<readyState, lastLeft>>

\* case 'join'.  The students array has no bound in the code; MaxStudents
\* caps it here.
JoinOn(withRoster, c, role, name) ==
  /\ name = NameOf(c)
  /\ readyState[c] = "OPEN"
  /\ role # "teacher" => Len(students) < MaxStudents
  /\ \E id \in generateId :
       LET t == IF role = "teacher"
                THEN [ws |-> c, id |-> id, name |-> name, role |-> "teacher"]
                ELSE teacherClient
           s == IF role = "teacher"
                THEN students
                ELSE Append(students,
                            [ws |-> c, id |-> id, name |-> name, role |-> "student"])
           joined == <<Send(c, JoinedMsg(role, id))>>
           notify == IF role = "teacher"
                     THEN <<>>
                     ELSE forwardToTeacher(readyState, teacherClient,
                                           StudentJoinedMsg(id, name))
       IN  /\ clientId' = [clientId EXCEPT ![c] = id]
           /\ teacherClient' = t
           /\ students' = s
           /\ sent' = joined \o notify \o Roster(withRoster, readyState, t, s)
  /\ ev' = Event("join", c, [type |-> "join", role |-> role, name |-> name])
  /\ UNCHANGED <<readyState, lastLeft>>

Join(c, role, name) == JoinOn(TRUE, c, role, name)

\* ws.on('close'): the socket is CLOSED and out of wss.clients when it runs
CloseOn(withRoster, c) ==
  /\ readyState[c] \in {"OPEN", "CLOSING"}
  /\ LET rs == [readyState EXCEPT ![c] = "CLOSED"]
         isTeacher == teacherClient # NoClient /\ teacherClient.id = clientId[c]
         t == IF isTeacher THEN NoClient ELSE teacherClient
         s == IF isTeacher
              THEN students
              ELSE filterStudents(students, clientId[c])
         left == IF isTeacher
                 THEN <<>>
                 ELSE forwardToTeacher(rs, teacherClient,
                                       StudentLeftMsg(clientId[c]))
     IN  /\ readyState' = rs
         /\ teacherClient' = t
         /\ students' = s
         /\ sent' = left \o Roster(withRoster, rs, t, s)
         /\ lastLeft' = IF s # students THEN clientId[c] ELSE lastLeft
  /\ clientId' = [clientId EXCEPT ![c] = Null]   \* the closure dies with the socket
  /\ ev' = Event("close", c, Closure(clientId[c]))

\* mutant: a close rewrites the registry and broadcasts nothing
Close_NoRoster(c) == CloseOn(FALSE, c)

Close(c) == CloseOn(TRUE, c)

\* mutant: a target that is registered but not open is pruned from students
Offer_PruneDead(c, studentId, sdp) ==
  /\ readyState[c] = "OPEN"
  /\ sent' = forwardToStudent(studentId, OfferMsg(studentId, sdp))
  /\ students' = SelectSeq(students,
                           LAMBDA x : x.id # studentId \/ readyState[x.ws] = "OPEN")
  /\ ev' = Event("offer", c,
                 [type |-> "offer", studentId |-> studentId, sdp |-> sdp])
  /\ UNCHANGED <<readyState, clientId, teacherClient, lastLeft>>

\* case 'offer'
Offer(c, studentId, sdp) ==
  /\ readyState[c] = "OPEN"
  /\ sent' = forwardToStudent(studentId, OfferMsg(studentId, sdp))
  /\ ev' = Event("offer", c,
                 [type |-> "offer", studentId |-> studentId, sdp |-> sdp])
  /\ UNCHANGED <<readyState, clientId, teacherClient, students, lastLeft>>

\* mutant: an answer is relayed only when the viewer it names has sent it
Answer_FromViewerOnly(c, studentId, sdp) ==
  /\ readyState[c] = "OPEN"
  /\ sent' = IF clientId[c] = studentId
             THEN forwardToTeacher(readyState, teacherClient,
                                   AnswerMsg(studentId, sdp))
             ELSE <<>>
  /\ ev' = Event("answer", c,
                 [type |-> "answer", studentId |-> studentId, sdp |-> sdp])
  /\ UNCHANGED <<readyState, clientId, teacherClient, students, lastLeft>>

\* case 'answer'
Answer(c, studentId, sdp) ==
  /\ readyState[c] = "OPEN"
  /\ sent' = forwardToTeacher(readyState, teacherClient, AnswerMsg(studentId, sdp))
  /\ ev' = Event("answer", c,
                 [type |-> "answer", studentId |-> studentId, sdp |-> sdp])
  /\ UNCHANGED <<readyState, clientId, teacherClient, students, lastLeft>>

\* case 'ice-candidate'
IceCandidate(c, target, studentId, candidate) ==
  /\ readyState[c] = "OPEN"
  /\ sent' = IF target = "teacher"
             THEN forwardToTeacher(readyState, teacherClient,
                                   IceMsg("teacher", studentId, candidate))
             ELSE forwardToStudent(studentId,
                                   IceMsg("student", studentId, candidate))
  /\ ev' = Event("ice-candidate", c,
                 [type |-> "ice-candidate", target |-> target,
                  studentId |-> studentId, candidate |-> candidate])
  /\ UNCHANGED <<readyState, clientId, teacherClient, students, lastLeft>>

\* mutant: the sender is told that its payload was not understood
Malformed_ReplyError(c) ==
  /\ readyState[c] = "OPEN"
  /\ sent' = <<Send(c, [type |-> "error"])>>
  /\ ev' = Event("malformed", c, NoMsg)
  /\ UNCHANGED <<readyState, clientId, teacherClient, students, lastLeft>>

\* JSON.parse throws: console.error and return
Malformed(c) ==
  /\ readyState[c] = "OPEN"
  /\ sent' = <<>>
  /\ ev' = Event("malformed", c, NoMsg)
  /\ UNCHANGED <<readyState, clientId, teacherClient, students, lastLeft>>

\* the values msg.type takes in the default case: a string that is no case
\* label, or undefined (an object without type, a number, a string, a boolean)
UnknownTypes == {"chat", "undefined"}

\* default: console.log and break
Unknown(c, ty) ==
  /\ readyState[c] = "OPEN"
  /\ sent' = <<>>
  /\ ev' = Event("unknown", c, [type |-> ty])
  /\ UNCHANGED <<readyState, clientId, teacherClient, students, lastLeft>>

\* the payload `null`: JSON.parse returns null and `switch (msg.type)`, which
\* is outside the try block, throws a TypeError out of the 'message'
\* listener.  Nothing catches it: the process exits, and every socket and
\* the registry go with it.
NullPayload(c) ==
  /\ readyState[c] = "OPEN"
  /\ readyState' = [d \in Conns |-> "CLOSED"]
  /\ clientId' = [d \in Conns |-> Null]
  /\ teacherClient' = NoClient
  /\ students' = <<>>
  /\ sent' = <<>>
  /\ ev' = Event("null", c, NoMsg)
  /\ UNCHANGED lastLeft

\* src/server.js: the same callbacks, without the roster broadcast
JoinServerJs(c, role, name) == JoinOn(FALSE, c, role, name)

CloseServerJs(c) == CloseOn(FALSE, c)

Targets == {"teacher", "student"}

Next ==
  \/ \E c \in Conns : Connect(c)
        /\ UNCHANGED cvars
  \/ \E c \in Conns : TransportDrop(c)
        /\ UNCHANGED cvars
  \/ \E c \in Conns, role \in Roles, name \in Names : Join(c, role, name)
        /\ UNCHANGED cvars
  \/ \E c \in Conns : Close(c)
        /\ UNCHANGED cvars
  \/ \E c \in Conns, studentId \in Ids, sdp \in Payloads : Offer(c, studentId, sdp)
        /\ UNCHANGED cvars
  \/ \E c \in Conns, studentId \in Ids, sdp \in Payloads : Answer(c, studentId, sdp)
        /\ UNCHANGED cvars
  \/ \E c \in Conns, target \in Targets, studentId \in Ids, candidate \in Payloads :
        IceCandidate(c, target, studentId, candidate)
        /\ UNCHANGED cvars
  \/ \E c \in Conns : Malformed(c)
        /\ UNCHANGED cvars
  \/ \E c \in Conns, ty \in UnknownTypes : Unknown(c, ty)
        /\ UNCHANGED cvars
  \/ \E c \in Conns : NullPayload(c)
        /\ UNCHANGED cvars

NextServerJs ==
  \/ \E c \in Conns : Connect(c)
        /\ UNCHANGED cvars
  \/ \E c \in Conns : TransportDrop(c)
        /\ UNCHANGED cvars
  \/ \E c \in Conns, role \in Roles, name \in Names : JoinServerJs(c, role, name)
        /\ UNCHANGED cvars
  \/ \E c \in Conns : CloseServerJs(c)
        /\ UNCHANGED cvars
  \/ \E c \in Conns, studentId \in Ids, sdp \in Payloads : Offer(c, studentId, sdp)
        /\ UNCHANGED cvars
  \/ \E c \in Conns, studentId \in Ids, sdp \in Payloads : Answer(c, studentId, sdp)
        /\ UNCHANGED cvars
  \/ \E c \in Conns, target \in Targets, studentId \in Ids, candidate \in Payloads :
        IceCandidate(c, target, studentId, candidate)
        /\ UNCHANGED cvars
  \/ \E c \in Conns : Malformed(c)
        /\ UNCHANGED cvars
  \/ \E c \in Conns, ty \in UnknownTypes : Unknown(c, ty)
        /\ UNCHANGED cvars
  \/ \E c \in Conns : NullPayload(c)
        /\ UNCHANGED cvars

Spec == Init /\ [][Next]_vars

SpecServerJs == Init /\ [][NextServerJs]_vars

\* ------------------------------------------------------------ pages
\* a page step: no broker callback runs
BrokerIdle ==
  /\ sent' = <<>>
  /\ ev' = Event("page", Null, NoMsg)
  /\ UNCHANGED <<readyState, clientId, teacherClient, students, lastLeft>>

\* the messages on their way to the broker
InFlight == Cardinality({<<c, k>> \in Conns \X (1..MaxInFlight) : k <= Len(inbox[c])})

\* the presses of the login button so far
Clicks == Cardinality({<<c, k>> \in Conns \X (1..MaxClicks) : k <= page[c].clicks})

\* ws.send(JSON.stringify(m)) of the page behind socket c
PageSend(c, m) ==
  /\ InFlight < MaxInFlight
  /\ inbox' = [inbox EXCEPT ![c] = Append(@, m)]

\* the sends of one broker callback, put on the wire to each page in order;
\* nothing reaches a page that is gone.  An attendants-list falls to the
\* `default` of ws.onmessage, which only logs it: it is not queued.
Deliver(out, s) ==
  [c \in Conns |->
     IF page[c].gone
     THEN <<>>
     ELSE LET mine == SelectSeq(s, LAMBDA x : x.to = c
                                     /\ x.msg.type # "attendants-list")
          IN  out[c] \o [k \in 1..Len(mine) |-> mine[k].msg]]

\* pcStudents[studentId], 0 when there is no entry
Link(c, studentId) ==
  IF studentId \in Ids THEN page[c].pcStudents[studentId] ELSE 0

\* a pending operation of peer connection i, and the step that awaits it
Task(kind, i) == [kind |-> kind, pc |-> i]

RemoveAt(s, k) == SubSeq(s, 1, k - 1) \o SubSeq(s, k + 1, Len(s))

\* the browser opens the socket of a page
PageOpen(c) ==
  /\ Connect(c)
  /\ cev' = NoPageEvent
  /\ UNCHANGED <<inbox, outbox, page, pcs, tasks>>

\* loginBtn.onclick; the overlay is hidden by the first 'joined'
Login(c, role) ==
  /\ readyState[c] = "OPEN"
  /\ ~page[c].gone
  /\ page[c].userId = Null
  /\ Clicks < MaxClicks
  /\ page' = [page EXCEPT ![c].clicks = @ + 1, ![c].userRole = role]
  /\ PageSend(c, [type |-> "join", role |-> role, name |-> NameOf(c)])
  /\ cev' = PageEvent("login", c, NoMsg, 0)
  /\ UNCHANGED <<outbox, pcs, tasks>>
  /\ BrokerIdle

\* ws.on('message') for the next message of socket c that a page sent
BrokerReceive(c) ==
  /\ inbox[c] # <<>>
  /\ LET m == Head(inbox[c])
     IN  \/ m.type = "join" /\ Join(c, m.role, m.name)
         \/ m.type = "offer" /\ Offer(c, m.studentId, m.sdp)
         \/ m.type = "answer" /\ Answer(c, m.studentId, m.sdp)
         \/ m.type = "ice-candidate"
              /\ IceCandidate(c, m.target, m.studentId, m.candidate)
  /\ inbox' = [inbox EXCEPT ![c] = Tail(@)]
  /\ outbox' = Deliver(outbox, sent')
  /\ cev' = NoPageEvent
  /\ UNCHANGED <<page, pcs, tasks>>

\* the tab is closed or reloaded: its callbacks and promises die with it
PageLeave(c) ==
  /\ readyState[c] = "OPEN"
  /\ ~page[c].gone
  /\ page' = [page EXCEPT ![c].gone = TRUE]
  /\ outbox' = [outbox EXCEPT ![c] = <<>>]
  /\ tasks' = [tasks EXCEPT ![c] = <<>>]
  /\ cev' = PageEvent("leave", c, NoMsg, 0)
  /\ UNCHANGED <<inbox, pcs>>
  /\ BrokerIdle

\* ws.on('close') once everything the page had sent has been processed
BrokerClose(c) ==
  /\ page[c].gone
  /\ inbox[c] = <<>>
  /\ Close(c)
  /\ outbox' = Deliver(outbox, sent')
  /\ cev' = NoPageEvent
  /\ UNCHANGED <<inbox, page, pcs, tasks>>

\* case 'joined': startTeacher() makes no peer connection, startStudent()
\* puts a new one in pcTeacher
OnJoined(c, m) ==
  LET p == [page[c] EXCEPT !.userRole = m.role, !.userId = m.id]
  IN  /\ IF m.role = "teacher"
         THEN /\ page' = [page EXCEPT ![c] = p]
              /\ UNCHANGED pcs
         ELSE /\ pcs' = [pcs EXCEPT ![c] = Append(@, NewPc(Null))]
              /\ page' = [page EXCEPT
                            ![c] = [p EXCEPT !.pcTeacher = Len(pcs[c]) + 1]]
      /\ cev' = PageEvent("joined", c, m, 0)
      /\ UNCHANGED <<inbox, tasks>>

\* createPeerConnectionForStudent(studentId)
createPeerConnectionForStudent(c, studentId) ==
  LET i == Len(pcs[c]) + 1
  IN  /\ pcs' = [pcs EXCEPT ![c] = Append(@, NewPc(studentId))]
      /\ page' = [page EXCEPT
                    ![c].dataChannels = @ \cup {studentId},
                    ![c].pcStudents[studentId] = i]
      /\ tasks' = [tasks EXCEPT ![c] = Append(@, Task("createOffer", i))]

\* case 'student-joined'
OnStudentJoined(c, m) ==
  /\ createPeerConnectionForStudent(c, m.studentId)
  /\ cev' = PageEvent("student-joined", c, m, Link(c, m.studentId))
  /\ UNCHANGED inbox

\* mutant: the data channel of the viewer that left is kept
OnStudentLeft_KeepChannel(c, m) ==
  LET i == Link(c, m.studentId)
  IN  /\ pcs' = IF i # 0 THEN [pcs EXCEPT ![c][i].closed = TRUE] ELSE pcs
      /\ page' = IF m.studentId \in Ids
                 THEN [page EXCEPT ![c].pcStudents[m.studentId] = 0]
                 ELSE page
      /\ cev' = PageEvent("student-left", c, m, i)
      /\ UNCHANGED <<inbox, tasks>>

\* case 'student-left'
OnStudentLeft(c, m) ==
  LET i == Link(c, m.studentId)
  IN  /\ pcs' = IF i # 0 THEN [pcs EXCEPT ![c][i].closed = TRUE] ELSE pcs
      /\ page' = IF m.studentId \in Ids
                 THEN [page EXCEPT
                         ![c].pcStudents[m.studentId] = 0,
                         ![c].dataChannels = @ \ {m.studentId}]
                 ELSE page
      /\ cev' = PageEvent("student-left", c, m, i)
      /\ UNCHANGED <<inbox, tasks>>

\* mutant: the offer is answered by presenters only
OnOffer_TeacherOnly(c, m) ==
  LET i == IF page[c].userRole = "teacher" THEN page[c].pcTeacher ELSE 0
  IN  /\ tasks' = IF i # 0
                  THEN [tasks EXCEPT ![c] = Append(@, Task("setRemoteOffer", i))]
                  ELSE tasks
      /\ cev' = PageEvent("offer", c, m, i)
      /\ UNCHANGED <<inbox, page, pcs>>

\* case 'offer': up to the first await; pcTeacher null throws
OnOffer(c, m) ==
  LET i == IF page[c].userRole = "student" THEN page[c].pcTeacher ELSE 0
  IN  /\ tasks' = IF i # 0
                  THEN [tasks EXCEPT ![c] = Append(@, Task("setRemoteOffer", i))]
                  ELSE tasks
      /\ cev' = PageEvent("offer", c, m, i)
      /\ UNCHANGED <<inbox, page, pcs>>

\* case 'answer'
OnAnswer(c, m) ==
  LET i == IF page[c].userRole = "teacher" THEN Link(c, m.studentId) ELSE 0
  IN  /\ tasks' = IF i # 0
                  THEN [tasks EXCEPT ![c] = Append(@, Task("setRemoteAnswer", i))]
                  ELSE tasks
      /\ cev' = PageEvent("answer", c, m, i)
      /\ UNCHANGED <<inbox, page, pcs>>

\* case 'ice-candidate': the connection addIceCandidate is called on, if any
OnIceCandidate(c, m) ==
  LET i == IF m.target = "teacher" /\ page[c].userRole = "teacher"
           THEN Link(c, m.studentId)
           ELSE IF m.target = "student" /\ page[c].userRole = "student"
                THEN page[c].pcTeacher
                ELSE 0
  IN  /\ cev' = PageEvent("ice-candidate", c, m, i)
      /\ UNCHANGED <<inbox, page, pcs, tasks>>

\* default: console.log
OnDefault(c, m) ==
  /\ cev' = PageEvent("default", c, m, 0)
  /\ UNCHANGED <<inbox, page, pcs, tasks>>

\* ws.onmessage of the page behind socket c, up to its first await
OnMessage(c) ==
  /\ outbox[c] # <<>>
  /\ ~page[c].gone
  /\ LET m == Head(outbox[c])
     IN  CASE m.type = "joined" -> OnJoined(c, m)
           [] m.type = "student-joined" -> OnStudentJoined(c, m)
           [] m.type = "student-left" -> OnStudentLeft(c, m)
           [] m.type = "offer" -> OnOffer(c, m)
           [] m.type = "answer" -> OnAnswer(c, m)
           [] m.type = "ice-candidate" -> OnIceCandidate(c, m)
           [] OTHER -> OnDefault(c, m)
  /\ outbox' = [outbox EXCEPT ![c] = Tail(@)]
  /\ BrokerIdle

\* a promise is rejected and nobody catches it: the chain ends
Rejected(c, t, rest) ==
  /\ tasks' = [tasks EXCEPT ![c] = rest]
  /\ cev' = PageEvent("rejected", c, [type |-> t.kind], t.pc)
  /\ UNCHANGED <<inbox, page, pcs>>

\* the operation tasks[c][k] completes and the step awaiting it runs up to
\* its next await; the operations of one connection complete in call order
TaskDone(c, k) ==
  /\ ~page[c].gone
  /\ k \in DOMAIN tasks[c]
  /\ \A j \in 1..(k - 1) : tasks[c][j].pc # tasks[c][k].pc
  /\ LET t == tasks[c][k]
         i == t.pc
         pc == pcs[c][i]
         rest == RemoveAt(tasks[c], k)
         cur == page[c].pcTeacher
     IN  CASE t.kind = "createOffer" ->
                \* pc.createOffer().then(offer => pc.setLocalDescription(offer)
                IF pc.closed
                THEN Rejected(c, t, rest)
                ELSE /\ tasks' = [tasks EXCEPT
                                    ![c] = Append(rest, Task("setLocalOffer", i))]
                     /\ cev' = PageEvent("createOffer", c, NoMsg, i)
                     /\ UNCHANGED <<inbox, page, pcs>>
           [] t.kind = "setLocalOffer" ->
                \* .then(() => ws.send({ type: 'offer', studentId, sdp }))
                IF pc.closed
                THEN Rejected(c, t, rest)
                ELSE /\ pcs' = [pcs EXCEPT ![c][i].local = TRUE,
                                           ![c][i].sentSdp = @ + 1]
                     /\ tasks' = [tasks EXCEPT ![c] = rest]
                     /\ PageSend(c, [type |-> "offer",
                                     studentId |-> pc.studentId, sdp |-> "X"])
                     /\ cev' = PageEvent("send-offer", c,
                                         OfferMsg(pc.studentId, "X"), i)
                     /\ UNCHANGED page
           [] t.kind = "setRemoteOffer" ->
                \* await pcTeacher.setRemoteDescription(offer);
                \* then pcTeacher.createAnswer() on the pcTeacher of that time
                IF pc.closed
                THEN Rejected(c, t, rest)
                ELSE /\ pcs' = [pcs EXCEPT ![c][i].remote = TRUE]
                     /\ tasks' = [tasks EXCEPT
                                    ![c] = Append(rest, Task("createAnswer", cur))]
                     /\ cev' = PageEvent("setRemoteOffer", c, NoMsg, i)
                     /\ UNCHANGED <<inbox, page>>
           [] t.kind = "createAnswer" ->
                \* await pcTeacher.createAnswer(); then setLocalDescription
                IF pc.closed \/ ~pc.remote
                THEN Rejected(c, t, rest)
                ELSE /\ tasks' = [tasks EXCEPT
                                    ![c] = Append(rest, Task("setLocalAnswer", cur))]
                     /\ cev' = PageEvent("createAnswer", c, NoMsg, i)
                     /\ UNCHANGED <<inbox, page, pcs>>
           [] t.kind = "setLocalAnswer" ->
                \* await pcTeacher.setLocalDescription(answer); then ws.send
                IF pc.closed \/ ~pc.remote
                THEN Rejected(c, t, rest)
                ELSE /\ pcs' = [pcs EXCEPT ![c][i].local = TRUE,
                                           ![c][i].sentSdp = @ + 1]
                     /\ tasks' = [tasks EXCEPT ![c] = rest]
                     /\ PageSend(c, [type |-> "answer",
                                     studentId |-> page[c].userId, sdp |-> "X"])
                     /\ cev' = PageEvent("send-answer", c,
                                         AnswerMsg(page[c].userId, "X"), i)
                     /\ UNCHANGED page
           [] OTHER ->
                \* "setRemoteAnswer": await pc.setRemoteDescription(answer)
                IF pc.closed \/ ~pc.local
                THEN Rejected(c, t, rest)
                ELSE /\ pcs' = [pcs EXCEPT ![c][i].remote = TRUE]
                     /\ tasks' = [tasks EXCEPT ![c] = rest]
                     /\ cev' = PageEvent("setRemoteAnswer", c, NoMsg, i)
                     /\ UNCHANGED <<inbox, page>>
  /\ UNCHANGED outbox
  /\ BrokerIdle

\* pc.onicecandidate / pcTeacher.onicecandidate with a candidate: gathering
\* starts once a local description is set
Candidate(c, i) ==
  /\ ~page[c].gone
  /\ i \in DOMAIN pcs[c]
  /\ pcs[c][i].local
  /\ ~pcs[c][i].closed
  /\ pcs[c][i].cands < MaxCand
  /\ pcs' = [pcs EXCEPT ![c][i].cands = @ + 1]
  /\ LET m == IF pcs[c][i].studentId # Null
              THEN [type |-> "ice-candidate", target |-> "student",
                    studentId |-> pcs[c][i].studentId, candidate |-> "X"]
              ELSE [type |-> "ice-candidate", target |-> "teacher",
                    studentId |-> page[c].userId, candidate |-> "X"]
     IN  /\ PageSend(c, m)
         /\ cev' = PageEvent("send-ice", c, m, i)
  /\ UNCHANGED <<outbox, page, tasks>>
  /\ BrokerIdle

\* how many peer connections and pending operations a page can hold
MaxPcs == MaxClicks

NextPages ==
  \/ \E c \in Conns : PageOpen(c)
  \/ \E c \in Conns, role \in RadioRoles : Login(c, role)
  \/ \E c \in Conns : BrokerReceive(c)
  \/ \E c \in Conns : OnMessage(c)
  \/ \E c \in Conns, k \in 1..(2 * MaxPcs) : TaskDone(c, k)
  \/ \E c \in Conns, i \in 1..MaxPcs : Candidate(c, i)
  \/ \E c \in Conns : PageLeave(c)
  \/ \E c \in Conns : BrokerClose(c)

SpecPages == Init /\ [][NextPages]_vars

\* a normal handshake: the page behind socket 1 logs in once as presenter,
\* every other page once as viewer, and nobody leaves
HandshakeLogin(c) ==
  /\ page[c].clicks = 0
  /\ Login(c, IF c = 1 THEN "teacher" ELSE "student")

NextHandshake ==
  \/ \E c \in Conns : PageOpen(c)
  \/ \E c \in Conns : HandshakeLogin(c)
  \/ \E c \in Conns : BrokerReceive(c)
  \/ \E c \in Conns : OnMessage(c)
  \/ \E c \in Conns, k \in 1..(2 * MaxPcs) : TaskDone(c, k)
  \/ \E c \in Conns, i \in 1..MaxPcs : Candidate(c, i)

\* every message received is eventually handled (the event loops of the
\* broker and of the pages run every ready callback), and every pending
\* operation of a peer connection eventually completes
Processed ==
  \A c \in Conns :
    /\ WF_vars(BrokerReceive(c))
    /\ WF_vars(OnMessage(c))
    /\ WF_vars(\E k \in 1..(2 * MaxPcs) : TaskDone(c, k))

SpecHandshake == Init /\ [][NextHandshake]_vars /\ Processed

\* ------------------------------------------------------------ observers
IsList(i) == sent[i].msg.type = "attendants-list"

\* the sends of the last callback that carry a message of type ty
SendsOf(ty) == {i \in DOMAIN sent : sent[i].msg.type = ty}

\* the registry the last callback started from
TeacherBefore == ev.before[1]
StudentsBefore == ev.before[2]

IsOpen(c) == readyState[c] = "OPEN"

\* socket c holds a registry entry
Registered(t, s, c) == (t # NoClient /\ t.ws = c) \/ \E i \in DOMAIN s : s[i].ws = c

\* the sockets other than the presenter's that are open
OpenNonPresenter == {c \in Conns : IsOpen(c) /\ c # teacherClient.ws}

\* ------------------------------------------------------------ claims

\* C1: every roster broadcast by broadcastAttendantsList, after any sequence
\* of join, relay and close events, has at most one entry with role teacher.
C1_AtMostOnePresenter ==
  \A i \in DOMAIN sent :
    IsList(i) =>
      Cardinality({k \in DOMAIN sent[i].msg.list :
                     sent[i].msg.list[k].role = "teacher"}) <= 1

\* a presenter join that displaces a presenter, with viewers registered
C1_Witness ==
  /\ ev.kind = "join" /\ ev.msg.role = "teacher"
  /\ TeacherBefore # NoClient /\ TeacherBefore.ws # ev.ws
  /\ Len(students) >= 1
  /\ \E i \in DOMAIN sent :
       /\ IsList(i)
       /\ Len(sent[i].msg.list) >= 2
       /\ sent[i].msg.list[1].role = "teacher"

\* C2: the ids of the students list are pairwise distinct and none equals
\* the id of teacherClient, whatever tokens generateId draws.
C2_UniqueIds ==
  /\ \A i, j \in DOMAIN students : i # j => students[i].id # students[j].id
  /\ teacherClient # NoClient =>
       \A i \in DOMAIN students : students[i].id # teacherClient.id

\* C3: a teacher join processed while a presenter is registered replaces the
\* slot, and the displaced presenter's id is in no attendants-list from that
\* join on.  Read here on the lists of the displacing join itself, the
\* displaced presenter being on another socket.
C3_DisplacedIdGone ==
  (/\ ev.kind = "join" /\ ev.msg.role = "teacher"
   /\ TeacherBefore # NoClient /\ TeacherBefore.ws # ev.ws) =>
    /\ teacherClient.ws = ev.ws
    /\ \A i \in DOMAIN sent :
         IsList(i) =>
           \A k \in DOMAIN sent[i].msg.list :
             sent[i].msg.list[k].id # TeacherBefore.id

\* C4: every join produces exactly one joined{role,id}, sent to the joining
\* socket only, whose id is the id the participant was just stored under;
\* no other callback sends a joined.
C4_JoinedReply ==
  /\ ev.kind # "join" => SendsOf("joined") = {}
  /\ ev.kind = "join" =>
       /\ Cardinality(SendsOf("joined")) = 1
       /\ \A i \in SendsOf("joined") :
            /\ sent[i].to = ev.ws
            /\ sent[i].msg.role = ev.msg.role
            /\ IF ev.msg.role = "teacher"
               THEN /\ teacherClient.ws = ev.ws
                    /\ teacherClient.id = sent[i].msg.id
                    /\ students = StudentsBefore
               ELSE /\ Len(students) = Len(StudentsBefore) + 1
                    /\ students[Len(students)].ws = ev.ws
                    /\ students[Len(students)].id = sent[i].msg.id
                    /\ teacherClient = TeacherBefore

\* a viewer join while the presenter and the joiner are on different sockets
C4_Witness ==
  /\ ev.kind = "join" /\ ev.msg.role = "student"
  /\ teacherClient # NoClient /\ teacherClient.ws # ev.ws
  /\ IsOpen(teacherClient.ws)
  /\ \E i \in SendsOf("joined") : sent[i].msg.id = students[Len(students)].id

\* C5: a viewer join processed while a presenter is registered and its
\* socket is open sends the presenter exactly one student-joined, carrying
\* the id just assigned to the viewer and the name given in the join.
C5_StudentJoinedNotice ==
  (/\ ev.kind = "join" /\ ev.msg.role # "teacher"
   /\ TeacherBefore # NoClient /\ IsOpen(TeacherBefore.ws)) =>
    /\ Cardinality(SendsOf("student-joined")) = 1
    /\ \A i \in SendsOf("student-joined") :
         /\ sent[i].to = TeacherBefore.ws
         /\ sent[i].msg.studentId = students[Len(students)].id
         /\ sent[i].msg.studentId = clientId[ev.ws]
         /\ sent[i].msg.name = ev.msg.name

\* the presenter, on another socket and under another name, is told
C5_Witness ==
  /\ ev.kind = "join" /\ ev.msg.role = "student"
  /\ TeacherBefore # NoClient /\ IsOpen(TeacherBefore.ws)
  /\ TeacherBefore.ws # ev.ws /\ TeacherBefore.name # ev.msg.name
  /\ SendsOf("student-joined") # {}

\* C6: student-joined and student-left go to the current presenter's socket
\* only: a socket that is not the presenter's (a viewer's, a displaced
\* presenter's, one that never joined) receives neither.
C6_PresenterOnly ==
  \A i \in SendsOf("student-joined") \cup SendsOf("student-left") :
    /\ teacherClient # NoClient
    /\ sent[i].to = teacherClient.ws
    /\ ev.kind \in {"join", "close"}

\* a notice is sent while a viewer's socket, not the presenter's, is open
C6_Witness ==
  /\ SendsOf("student-joined") \cup SendsOf("student-left") # {}
  /\ \E c \in OpenNonPresenter : \E i \in DOMAIN students : students[i].ws = c

\* C7: on every join and on every close of a registered presenter's or
\* viewer's socket, exactly one attendants-list is pushed to every socket
\* that is open at that moment, the joiner's included.
C7_RosterOnMembershipChange ==
  (\/ ev.kind = "join"
   \/ ev.kind = "close" /\ Registered(TeacherBefore, StudentsBefore, ev.ws)) =>
    \A c \in Conns :
      IsOpen(c) => Cardinality({i \in SendsOf("attendants-list") : sent[i].to = c}) = 1

\* C8: the list of every attendants-list is the registry at broadcast time:
\* the presenter entry first, if a presenter is registered, then every
\* registered viewer in the order of the students array, and nothing else.
C8_ListIsRegistry ==
  \A i \in SendsOf("attendants-list") :
    LET list == sent[i].msg.list
        off == IF teacherClient # NoClient THEN 1 ELSE 0
    IN  /\ Len(list) = off + Len(students)
        /\ teacherClient # NoClient =>
             list[1] = [id |-> teacherClient.id, name |-> teacherClient.name,
                        role |-> "teacher"]
        /\ \A k \in DOMAIN students :
             list[off + k] = [id |-> students[k].id, name |-> students[k].name,
                              role |-> "student"]

\* presenter P joined, then viewer A: both sockets get [P teacher, A student]
C8_Witness ==
  /\ ev.kind = "join" /\ ev.msg.role = "student"
  /\ teacherClient # NoClient /\ teacherClient.ws # ev.ws
  /\ Len(students) = 1
  /\ \A c \in {teacherClient.ws, ev.ws} :
       \E i \in SendsOf("attendants-list") :
         /\ sent[i].to = c
         /\ sent[i].msg.list =
              <<[id |-> teacherClient.id, name |-> teacherClient.name,
                 role |-> "teacher"],
                [id |-> students[1].id, name |-> ev.msg.name, role |-> "student"]>>

\* C9: an offer{studentId, sdp} processed while a viewer with that id is
\* registered and open is delivered once, unchanged, to that viewer's socket
\* and to no other.
C9_OfferToNamedViewer ==
  ev.kind = "offer" =>
    \A i \in DOMAIN students :
      (students[i].id = ev.msg.studentId /\ IsOpen(students[i].ws)) =>
        sent = <<Send(students[i].ws,
                      [type |-> "offer", sdp |-> ev.msg.sdp,
                       studentId |-> ev.msg.studentId])>>

\* C10: an offer or a student-targeted ice-candidate whose studentId is not
\* in the registry, or names only viewers whose socket is not open, sends
\* nothing on any socket and leaves the registry unchanged.
C10_UnknownTargetDropped ==
  (/\ \/ ev.kind = "offer"
      \/ ev.kind = "ice-candidate" /\ ev.msg.target # "teacher"
   /\ \A i \in DOMAIN students :
        students[i].id = ev.msg.studentId => ~IsOpen(students[i].ws)) =>
    /\ sent = <<>>
    /\ Registry = ev.before

\* the target is registered but its socket is no longer open
C10_Witness ==
  /\ ev.kind \in {"offer", "ice-candidate"}
  /\ ev.msg.type = "offer" \/ ev.msg.target = "student"
  /\ \E i \in DOMAIN students : students[i].id = ev.msg.studentId
  /\ \A i \in DOMAIN students :
       students[i].id = ev.msg.studentId => ~IsOpen(students[i].ws)
  /\ \E c \in Conns : IsOpen(c)
  /\ sent = <<>>

\* the last callback was the close of a registered viewer's socket: the
\* closure's id V is the id of a students entry made on that socket
ViewerLeft ==
  /\ ev.kind = "close"
  /\ \E k \in DOMAIN StudentsBefore :
       StudentsBefore[k].ws = ev.ws /\ StudentsBefore[k].id = ev.msg.clientId

\* the sends of the last callback that put student-left{studentId: id} on c
LeftNotices(c, id) ==
  {i \in SendsOf("student-left") : sent[i].to = c /\ sent[i].msg.studentId = id}

C12_ViewerCloseSeenByPresenter ==
  (/\ ev.kind = "close"
   /\ TeacherBefore # NoClient /\ TeacherBefore.ws # ev.ws
   /\ IsOpen(TeacherBefore.ws)) =>
    \A k \in DOMAIN StudentsBefore :
      StudentsBefore[k].ws = ev.ws =>
        LET A == StudentsBefore[k]
            P == TeacherBefore
        IN  /\ \A i \in DOMAIN students : students[i] # A
            /\ Cardinality(LeftNotices(P.ws, A.id)) = 1
            /\ \E i \in LeftNotices(P.ws, A.id) :
                 \E j \in SendsOf("attendants-list") :
                   /\ j > i
                   /\ sent[j].to = P.ws
                   /\ \A n \in DOMAIN sent[j].msg.list :
                        sent[j].msg.list[n].id # A.id

\* C13: an answer whose studentId is the id of a viewer that a close removed
\* from the registry, and that no registered viewer holds, is dropped:
\* nothing is sent to the presenter.
C13_StaleAnswerDropped ==
  (/\ ev.kind = "answer"
   /\ ev.msg.studentId = lastLeft
   /\ \A i \in DOMAIN students : students[i].id # lastLeft) =>
    sent = <<>>

\* C14: every answer sent on is sent to the current presenter's socket only,
\* and the studentId it carries is the id the broker gave the connection
\* that sent the answer.
C14_AnswerTaggedWithSender ==
  ev.kind = "answer" =>
    \A i \in DOMAIN sent :
      /\ teacherClient # NoClient
      /\ sent[i].to = teacherClient.ws
      /\ sent[i].msg.type = "answer"
      /\ clientId[ev.ws] # Null
      /\ sent[i].msg.studentId = clientId[ev.ws]

\* C15: an ice-candidate with target teacher goes to the current presenter's
\* socket only, if registered and open; with any other target it goes only
\* to the viewer named by studentId, if registered and open; studentId and
\* candidate are relayed as given and no other socket is sent anything.
C15_IceRouting ==
  ev.kind = "ice-candidate" =>
    LET out(target) == [type |-> "ice-candidate", target |-> target,
                        studentId |-> ev.msg.studentId,
                        candidate |-> ev.msg.candidate]
    IN  IF ev.msg.target = "teacher"
        THEN sent = IF teacherClient # NoClient /\ IsOpen(teacherClient.ws)
                    THEN <<Send(teacherClient.ws, out("teacher"))>>
                    ELSE <<>>
        ELSE /\ \A i \in DOMAIN students :
                  (students[i].id = ev.msg.studentId /\ IsOpen(students[i].ws)) =>
                    sent = <<Send(students[i].ws, out("student"))>>
             /\ (\A i \in DOMAIN students :
                   students[i].id = ev.msg.studentId => ~IsOpen(students[i].ws)) =>
                  sent = <<>>

\* C16: a payload that does not parse and a message of an unrecognized type
\* are dropped: the registry is as before, nothing is sent on any socket,
\* the sender included, and the sender's socket stays open and can have a
\* later join processed.
C16_DroppedSilently ==
  ev.kind \in {"malformed", "unknown"} =>
    /\ sent = <<>>
    /\ Registry = ev.before
    /\ IsOpen(ev.ws)
    /\ ENABLED Join(ev.ws, "teacher", NameOf(ev.ws))

\* a registered participant sends text that is not JSON while another
\* socket is open
C16_Witness ==
  /\ ev.kind = "malformed"
  /\ Registered(teacherClient, students, ev.ws)
  /\ \E c \in Conns : c # ev.ws /\ IsOpen(c)

\* C17: no inbound payload is fatal: after the 'message' callback of any
\* payload the sender's socket is still served, and a payload that is no
\* join leaves the registry as it was.
C17_NoPayloadFatal ==
  ev.kind \in {"join", "offer", "answer", "ice-candidate",
               "unknown", "malformed", "null"} =>
    /\ IsOpen(ev.ws)
    /\ ev.kind # "join" => Registry = ev.before

\* the registry the last callback started from holds no token twice
DistinctBefore ==
  /\ \A i, j \in DOMAIN StudentsBefore :
       i # j => StudentsBefore[i].id # StudentsBefore[j].id
  /\ \A i \in DOMAIN StudentsBefore : StudentsBefore[i].id # TeacherBefore.id

\* C18: once the close of a socket has been processed, neither teacherClient
\* nor any students entry was made by a join on that socket.  Stated for a
\* registry whose tokens are distinct.
C18_ClosedSocketUnregistered ==
  (ev.kind = "close" /\ DistinctBefore) =>
    ~Registered(teacherClient, students, ev.ws)

\* the id of the closing closure is neither the presenter's nor a viewer's
ClosingIdUnknown ==
  /\ ev.kind = "close"
  /\ TeacherBefore.id # ev.msg.clientId
  /\ \A k \in DOMAIN StudentsBefore : StudentsBefore[k].id # ev.msg.clientId

\* C19: the close of a socket whose current id is not in the registry (it
\* never joined, or it is a presenter that a later presenter join displaced)
\* leaves the presenter slot and the viewer list as they were.
C19_UnknownIdNoOp ==
  ClosingIdUnknown => Registry = ev.before

\* a displaced presenter's socket closes while a presenter and a viewer are
\* registered
C19_Witness ==
  /\ ClosingIdUnknown
  /\ ev.msg.clientId # Null
  /\ teacherClient # NoClient /\ teacherClient.ws # ev.ws
  /\ Len(students) >= 1

\* C20: an offer, an answer, an ice-candidate, a message of an unrecognized
\* type and a payload that does not parse leave teacherClient and students
\* as they were.
C20_RelaysKeepRegistry ==
  ev.kind \in {"offer", "answer", "ice-candidate", "unknown", "malformed"} =>
    Registry = ev.before

\* an answer is relayed while a presenter and a viewer are registered
C20_Witness ==
  /\ ev.kind = "answer"
  /\ teacherClient # NoClient /\ Len(students) >= 1
  /\ sent # <<>>

\* the sends of the last callback that relay a signaling message
RelaySends == SendsOf("offer") \cup SendsOf("answer") \cup SendsOf("ice-candidate")

\* C21: the relay never buffers.  Whatever a callback relays is the message
\* that callback was given, relayed at most once: a join, a close or another
\* message never brings out a signaling message that was dropped before, so
\* a message whose target was absent or not open is delivered at no later
\* time.
C21_NoBuffering ==
  /\ Cardinality(RelaySends) <= 1
  /\ \A i \in RelaySends :
       /\ ev.kind = sent[i].msg.type
       /\ sent[i].msg.studentId = ev.msg.studentId
       /\ ev.kind = "ice-candidate" => sent[i].msg.candidate = ev.msg.candidate
       /\ ev.kind # "ice-candidate" => sent[i].msg.sdp = ev.msg.sdp
  /\ ev.kind \in {"offer", "answer", "ice-candidate"} =>
       Len(sent) = Cardinality(RelaySends)

\* an answer or a teacher-targeted ice-candidate is processed while no
\* presenter is registered and a viewer's socket is open: nothing goes out
C21_Witness ==
  /\ ev.kind \in {"answer", "ice-candidate"}
  /\ ev.kind = "ice-candidate" => ev.msg.target = "teacher"
  /\ teacherClient = NoClient
  /\ \E i \in DOMAIN students : IsOpen(students[i].ws)
  /\ sent = <<>>

\* the sends of the callback that ends a step, meant for the presenter
PresenterBound(out) ==
  {i \in DOMAIN out :
     \/ out[i].msg.type \in {"answer", "student-joined", "student-left"}
     \/ out[i].msg.type = "ice-candidate" /\ out[i].msg.target = "teacher"}

\* C22: a presenter join that displaces a presenter leaves the displaced
\* presenter's socket as it was and sends it nothing but the roster; neither
\* party is sent an error; and every answer, teacher-targeted ice-candidate,
\* student-joined and student-left goes to the socket of the presenter in
\* the slot, never to a displaced one.
C22_SilentDisplacement ==
  [][/\ (/\ ev'.kind = "join" /\ ev'.msg.role = "teacher"
         /\ teacherClient # NoClient /\ teacherClient.ws # ev'.ws) =>
          /\ readyState' = readyState
          /\ teacherClient'.ws = ev'.ws
          /\ \A i \in DOMAIN sent' :
               /\ sent'[i].msg.type \in {"joined", "attendants-list"}
               /\ sent'[i].to = teacherClient.ws =>
                    sent'[i].msg.type = "attendants-list"
     /\ \A i \in PresenterBound(sent') :
          teacherClient' # NoClient /\ sent'[i].to = teacherClient'.ws
    ]_vars

\* a presenter was displaced by a join on another socket and its socket is
\* still open
C22_Witness ==
  /\ ev.kind = "join" /\ ev.msg.role = "teacher"
  /\ TeacherBefore # NoClient /\ TeacherBefore.ws # ev.ws
  /\ IsOpen(TeacherBefore.ws)
  /\ teacherClient.ws = ev.ws

\* C28: registry changes and roster broadcasts are serialized.  Every
\* attendants-list is sent by a join or a close, all the lists of one
\* broadcast are the same list, and that list is the registry as the
\* completed join or close left it.
C28_BroadcastIsOneSnapshot ==
  /\ SendsOf("attendants-list") # {} => ev.kind \in {"join", "close"}
  /\ \A i, j \in SendsOf("attendants-list") : sent[i].msg = sent[j].msg
  /\ \A i \in SendsOf("attendants-list") :
       sent[i].msg.list = RosterList(teacherClient, students)

\* a join processed while both sockets are open and hold viewers: two lists
C28_Witness ==
  /\ ev.kind = "join"
  /\ Len(students) = 2 /\ students[1].ws # students[2].ws
  /\ Cardinality({sent[i].to : i \in SendsOf("attendants-list")}) = 2

\* C30: the joiner is sent its joined reply before the attendants-list of
\* its join, and on a viewer join the presenter is sent student-joined before
\* that attendants-list.
C30_RepliesBeforeRoster ==
  ev.kind = "join" =>
    /\ \A j \in SendsOf("attendants-list") :
         sent[j].to = ev.ws =>
           \E i \in SendsOf("joined") : i < j /\ sent[i].to = ev.ws
    /\ \A j \in SendsOf("attendants-list") :
         (/\ ev.msg.role # "teacher"
          /\ TeacherBefore # NoClient /\ sent[j].to = TeacherBefore.ws) =>
           \E i \in SendsOf("student-joined") :
             /\ i < j
             /\ sent[i].to = TeacherBefore.ws
             /\ sent[i].msg.studentId = clientId[ev.ws]

\* a viewer joins while the presenter is open on another socket: joined,
\* student-joined, then the two lists
C30_Witness ==
  /\ ev.kind = "join" /\ ev.msg.role # "teacher"
  /\ TeacherBefore # NoClient /\ TeacherBefore.ws # ev.ws
  /\ Len(sent) = 4
  /\ sent[1].msg.type = "joined" /\ sent[2].msg.type = "student-joined"
  /\ IsList(3) /\ IsList(4)

\* ------------------------------------------------------------ PeerLink
\* the viewer behind socket c has answered the offer on its pcTeacher
ViewerActive(c) ==
  /\ page[c].userRole = "student"
  /\ page[c].pcTeacher # 0
  /\ pcs[c][page[c].pcTeacher].remote
  /\ pcs[c][page[c].pcTeacher].local
  /\ pcs[c][page[c].pcTeacher].sentSdp >= 1

\* the presenter behind socket t has applied an answer to the peer connection
\* it created for the viewer with this id
PresenterActive(t, id) ==
  /\ page[t].userRole = "teacher"
  /\ Link(t, id) # 0
  /\ pcs[t][Link(t, id)].studentId = id
  /\ pcs[t][Link(t, id)].sentSdp >= 1
  /\ pcs[t][Link(t, id)].remote

\* the join of the viewer behind socket c has just been processed while a
\* presenter was registered, and no other viewer is registered under the id
\* it was given
ViewerJoinedUnderPresenter(c) ==
  /\ ev.kind = "join"
  /\ ev.ws = c
  /\ ev.msg.role = "student"
  /\ TeacherBefore # NoClient
  /\ \A k \in DOMAIN StudentsBefore : StudentsBefore[k].id # clientId[c]

Quiescent ==
  \A c \in Conns :
    /\ inbox[c] = <<>>
    /\ outbox[c] = <<>>
    /\ tasks[c] = <<>>
    /\ page[c].gone => readyState[c] = "CLOSED"

\* a page that is still there and was told by 'joined' that it has this role
Alive(c, role) ==
  /\ ~page[c].gone
  /\ page[c].userId # Null
  /\ page[c].userRole = role

\* the viewer behind socket c holds a peer connection that took an offer
ViewerLinked(c) ==
  /\ Alive(c, "student")
  /\ page[c].pcTeacher # 0
  /\ pcs[c][page[c].pcTeacher].remote
  /\ ~pcs[c][page[c].pcTeacher].closed

\* the presenter page behind socket t sent an offer for this id and is gone
PresenterGone(t, id) ==
  /\ page[t].gone
  /\ page[t].userRole = "teacher"
  /\ \E i \in DOMAIN pcs[t] :
        pcs[t][i].studentId = id /\ pcs[t][i].sentSdp >= 1

\* C24 (as claimed, the viewer's half): whenever the presenter's transport
\* has dropped and all that followed from it has been processed, the viewer
\* has discarded the peer connection that took that presenter's offer.
C24_ViewerClosesLink ==
  Quiescent =>
    \A c, t \in Conns :
      (c # t /\ page[t].userId # page[c].userId
             /\ PresenterGone(t, page[c].userId)) => ~ViewerLinked(c)

\* no two registered viewers hold the same id
DistinctViewers ==
  \A i, j \in DOMAIN students : i # j => students[i].id # students[j].id

\* every page pressed Login once at most, and no two pages were given the
\* same id
PlainLogins ==
  \A c \in Conns :
    /\ page[c].clicks <= 1
    /\ \A d \in Conns \ {c} :
          page[c].userId # Null => page[c].userId # page[d].userId

\* C25 (as claimed): on the presenter's side an offer is sent once per peer
\* connection and only with its local description set, and an answer is
\* applied only to a link whose offer has already been sent (stated for
\* viewers registered under ids of their own).
C25_PresenterPath ==
  DistinctViewers =>
    /\ cev.kind = "send-offer" =>
          /\ cev.pc.sentSdp = 0
          /\ pcs[cev.ws][cev.idx].local
    /\ (cev.kind = "answer" /\ cev.idx # 0) => cev.pc.sentSdp >= 1

\* the steps of the viewer's `case 'offer'`
AnswerSteps == {"setRemoteOffer", "createAnswer", "setLocalAnswer"}

\* C26 (as claimed): on the viewer's side every offer received is taken by
\* the peer connection made on 'joined' and is answered: no step between the
\* offer and its answer fails, and the answer carries the id given in joined
\* (stated for viewers registered under ids of their own).
C26_ViewerPath ==
  DistinctViewers =>
    /\ (cev.kind = "offer" /\ page[cev.ws].userRole = "student") => cev.idx # 0
    /\ cev.kind = "rejected" => cev.msg.type \notin AnswerSteps
    /\ cev.kind = "send-answer" =>
          /\ cev.msg.studentId = page[cev.ws].userId
          /\ cev.pc.remote

\* C27 (as claimed): an endpoint hands an inbound candidate only to a peer
\* connection whose remote description is set (stated for pages that logged
\* in once, under ids of their own).
C27_CandidateAfterRemoteDescription ==
  (PlainLogins /\ cev.kind = "ice-candidate" /\ cev.idx # 0) => cev.pc.remote

\* the page step just taken handled a message of this type on a page whose
\* role was teacher
PresenterHandles(c, type) ==
  /\ cev'.kind = type
  /\ cev'.ws = c
  /\ outbox[c] # <<>>
  /\ cev'.msg = Head(outbox[c])
  /\ outbox'[c] = Tail(outbox[c])

C31_LeftOnlyForRemovedViewer ==
  (ev.kind = "close" /\ DistinctBefore) =>
    \A i \in SendsOf("student-left") :
      /\ ViewerLeft
      /\ sent[i].msg.studentId = ev.msg.clientId

\* page t has sent an offer
IssuedOffer(t) ==
  \E i \in DOMAIN pcs[t] :
    pcs[t][i].studentId # Null /\ pcs[t][i].sentSdp >= 1

\* C32 (as claimed): an answer that a viewer page sent in response to an
\* offer is delivered by the broker only to a presenter endpoint that issued
\* an offer, whatever presenter joins happened since (stated for registry
\* entries with ids of their own).
C32_AnswerReachesOfferer ==
  (ev.kind = "answer" /\ DistinctBefore) =>
    \A i \in SendsOf("answer") : IssuedOffer(sent[i].to)

\* an offer is on its way to the page behind socket c, or the page has taken
\* one
OfferReached(c) ==
  \/ \E k \in DOMAIN outbox[c] : outbox[c][k].type = "offer"
  \/ \E k \in DOMAIN tasks[c] : tasks[c][k].kind \in AnswerSteps
  \/ \E i \in DOMAIN pcs[c] : pcs[c][i].studentId = Null /\ pcs[c][i].remote

\* the viewer behind socket c pressed Login once, and nothing announces it:
\* no student-joined naming its id is on its way to a page, no page holds a
\* peer connection made for its id, and no offer has reached it
Unannounced(c) ==
  /\ Alive(c, "student")
  /\ page[c].clicks = 1
  /\ ~OfferReached(c)
  /\ \A d \in Conns :
        /\ \A k \in DOMAIN outbox[d] :
              outbox[d][k].type = "student-joined"
                => outbox[d][k].studentId # page[c].userId
        /\ \A i \in DOMAIN pcs[d] : pcs[d][i].studentId # page[c].userId

\* C33 (as claimed): a viewer that no presenter has been told of is not
\* announced later, whatever joins or replaces the presenter: as long as its
\* page stays and does not log in again, no student-joined names it, no
\* offer is made for it, and its peer connection keeps awaiting an offer.
C33_UnannouncedViewerWaits ==
  [][\A c \in Conns :
       (Unannounced(c) /\ page'[c].clicks = 1 /\ ~page'[c].gone)
         => Unannounced(c)']_vars

\* the attendants-list entry that the join just handled has written: the
\* teacher's entry comes first, a pushed student's entry comes last
JoinerEntry(list) ==
  IF ev.msg.role = "teacher" THEN list[1] ELSE list[Len(list)]

\* C34 (as claimed): for every join, whatever the value of its role field,
\* the role reported to the joiner in joined{role, id} is the role under
\* which the joiner is listed in the attendants-list that the join
\* broadcasts.
C34_JoinedRoleIsListedRole ==
  ev.kind = "join" =>
    \A i \in SendsOf("joined") :
      \A j \in SendsOf("attendants-list") :
        JoinerEntry(sent[j].msg.list).role = sent[i].msg.role

\* the registry snapshot that an attendants-list carries, before and after
\* the last callback
SnapshotBefore == RosterList(TeacherBefore, StudentsBefore)
Snapshot == RosterList(teacherClient, students)

\* socket c was sent an attendants-list by the last callback
GotList(c) ==
  \E i \in SendsOf("attendants-list") : sent[i].to = c

\* C35: between callbacks the attendants-list that an open connection
\* received last is the current registry snapshot.  Stated per callback:
\* every attendants-list sent carries the snapshot the callback leaves
\* behind, and a callback that changes the snapshot sends one to every
\* connection that is open after it, so no change goes unannounced.
C35_LastListIsSnapshot ==
  /\ \A i \in SendsOf("attendants-list") : sent[i].msg.list = Snapshot
  /\ Snapshot # SnapshotBefore =>
        \A c \in Conns : readyState[c] = "OPEN" => GotList(c)

\* a close has changed the snapshot and an open connection was sent the new one
C35_Witness ==
  /\ ev.kind = "close"
  /\ Snapshot # SnapshotBefore
  /\ \E c \in Conns : readyState[c] = "OPEN" /\ GotList(c)

\* what one relayed message can make the broker send: nothing, or one of
\* the relayed forms of the message to one socket
Deliveries(studentId, p) ==
  {<<>>} \cup
  {<<Send(x, m)>> : x \in Conns,
                    m \in {OfferMsg(studentId, p), AnswerMsg(studentId, p),
                           IceMsg("teacher", studentId, p),
                           IceMsg("student", studentId, p)}}

\* the standing of the connection behind socket c
IsPresenter(c) == teacherClient # NoClient /\ teacherClient.ws = c
NeverJoined(c) == clientId[c] = Null

\* C36: offer, answer and ice-candidate are routed by their content alone.
\* In every state, for every two open connections and every message, the
\* broker makes the same deliveries whichever of the two sends it.
C36_RoutingIgnoresSender ==
  \A c, d \in Conns :
    (c < d /\ readyState[c] = "OPEN" /\ readyState[d] = "OPEN") =>
      \A studentId \in Ids, p \in Payloads :
        \A S \in Deliveries(studentId, p) :
          /\ (ENABLED (Offer(c, studentId, p) /\ sent' = S /\ UNCHANGED cvars))
               <=> (ENABLED (Offer(d, studentId, p) /\ sent' = S /\ UNCHANGED cvars))
          /\ (ENABLED (Answer(c, studentId, p) /\ sent' = S /\ UNCHANGED cvars))
               <=> (ENABLED (Answer(d, studentId, p) /\ sent' = S /\ UNCHANGED cvars))
          /\ \A target \in Targets :
               (ENABLED (IceCandidate(c, target, studentId, p)
                          /\ sent' = S /\ UNCHANGED cvars))
                 <=> (ENABLED (IceCandidate(d, target, studentId, p)
                                /\ sent' = S /\ UNCHANGED cvars))

\* a connection that never joined has sent a message that the broker
\* delivered, while the presenter is connected on another socket
C36_Witness ==
  /\ ev.kind \in {"offer", "answer", "ice-candidate"}
  /\ sent # <<>>
  /\ readyState[ev.ws] = "OPEN"
  /\ NeverJoined(ev.ws)
  /\ \E d \in Conns \ {ev.ws} : readyState[d] = "OPEN" /\ IsPresenter(d)

====
